---------------------------- MODULE Spec2Model ----------------------------
(***************************************************************************)
(* Model of the gemini-tts repository.                                     *)
(*                                                                         *)
(*   server.py      the voice relay: one WebSocket handler per client,     *)
(*                  with two forwarding tasks (send_to_gemini,             *)
(*                  receive_from_gemini) and an asyncio queue between the  *)
(*                  client read loop and the upstream send task.           *)
(*   tts_server.py  the text-to-speech relay with its in-memory session    *)
(*                  store and the HTTP login surface.                      *)
(*                                                                         *)
(* asyncio is cooperative: the code between two awaits that really         *)
(* suspend runs atomically, so one action is one such stretch of code.     *)
(* The client and the upstream service are the environment: what they      *)
(* send, and when they fail or go away, is chosen nondeterministically.    *)
(***************************************************************************)
EXTENDS Integers, Sequences, FiniteSets, TLC

VARIABLES
    scenario,       \* what runs: "voice" | "tts_ws" | "tts_http" (see Init)
    \* ---- server.py: websocket_endpoint and its closures
    pc,             \* position of websocket_endpoint
    is_connected,   \* server.py:55
    gemini_session, \* server.py:54  "None" | "session"
    audio_queue,    \* server.py:56  asyncio.Queue, a sequence
    send_pc,        \* position of the send_to_gemini task
    inflight,       \* item send_to_gemini handed to send_realtime_input
    recv_pc,        \* position of the receive_from_gemini task
    pending,        \* client frames receive_from_gemini still has to send
    \* ---- environment and observation of the voice relay
    clientOpen,     \* the client transport is still open
    clientIn,       \* frames websocket.receive_text() has returned, in order
    clientOut,      \* frames written to the open client transport, in order
    closedWrites,   \* send_json calls made on a closed client transport
    upstreamCalls,  \* payloads passed to send_realtime_input, in order
    upstreamOut,    \* number of responses the upstream has produced
    upstreamLog,    \* what the responses held that the receive task took
                    \* while the flag was up, in the order it looks for it
    closeCalls,     \* calls of gemini_session.close()
    connectFailed,  \* client.aio.live.connect raised
    sendFailed,     \* send_realtime_input raised
    recvFailed,     \* the upstream receive stream raised
    \* ---- tts_server.py: the session store and the HTTP surface
    sessions,       \* tts_server.py:51  token -> session record
    now,            \* datetime.now(), in hours
    nextToken,      \* the next value secrets.token_hex returns
    issued,         \* history: token -> the record create_session stored
    revoked,        \* history: tokens whose entry logout deleted
    lastResp,       \* the last HTTP response; raised: the handler ended with
                    \* an exception, which the framework answers with 500
    \* ---- tts_server.py: websocket_tts
    tts_pc,         \* position of websocket_tts
    tts_text,       \* the text of the request being served
    tts_open,       \* upstream sessions open inside "async with"
    tts_got,        \* responses received in the current upstream session
    \* ---- environment and observation of the TTS relay
    ttsAuthorized,  \* verify_session would have accepted the cookie at accept
    ttsClientOpen,  \* the client transport is still open
    ttsIn,          \* frames websocket.receive_text() has returned, in order
    ttsOut,         \* frames written to the open client transport, in order
    ttsClosedWrites,\* send_json calls made on a closed client transport
    ttsSubmitted,   \* texts passed to send_client_content, in order, each
                    \* with the number of its request
    ttsSessions,    \* upstream sessions opened so far
    ttsFailed       \* upstream failures after a successful connect so far

voiceVars == <<pc, is_connected, gemini_session, audio_queue, send_pc, inflight,
               recv_pc, pending, clientOpen, clientIn, clientOut, closedWrites,
               upstreamCalls, upstreamOut,
               upstreamLog, closeCalls, connectFailed,
               sendFailed, recvFailed>>

httpVars == <<sessions, now, nextToken, issued, revoked, lastResp>>

ttsVars == <<tts_pc, tts_text, tts_open, tts_got, ttsAuthorized, ttsClientOpen,
             ttsIn, ttsOut, ttsClosedWrites, ttsSubmitted, ttsSessions,
             ttsFailed>>

vars == <<scenario, voiceVars, ttsVars, httpVars>>

-----------------------------------------------------------------------------
(* Bounds of the model *)

MaxFrames == 3      \* client frames read on one voice connection
MaxUpstream == 2    \* responses the upstream produces on one voice connection
MaxTokens == 2      \* sessions created in one run of the HTTP scenario
MaxNow == 48        \* the clock stops here (hours)
TickHours == 8      \* the clock advances in steps of this many hours
MaxTtsFrames == 2   \* client frames read on one TTS connection
MaxTtsResponses == 2 \* responses the upstream produces in one TTS session
MaxChunk == 3       \* the size bound S of a submitted piece (characters)

-----------------------------------------------------------------------------
(* server.py: values *)

\* The sentinel that websocket_endpoint's finally block puts on the queue.
NoneItem == 0

\* What a client text frame can be, as the read loop sees it.
\*   audio      {"type":"audio","data":<base64>}
\*   unknown    a JSON object whose type is missing or not "audio"
\*   badjson    not JSON: json.loads raises
\*   nonobject  JSON that is no object: message.get raises AttributeError
\*   badaudio   type "audio" without data, or data that is no base64
FrameKinds == {"audio", "unknown", "badjson", "nonobject", "badaudio"}

\* The i-th frame of a connection carries the payload i, base64 encoded.
B64Encode(bytes) == [b64 |-> bytes]
B64Decode(data) == data.b64

ClientFrame(kind, i) == [kind |-> kind, data |-> B64Encode(i)]

\* One element of the upstream receive stream, as the list of things
\* receive_from_gemini finds in it, in the order it looks for them.
Responses == { <<>>, <<"audio">>, <<"text">>, <<"audio", "text">>,
               <<"turn_complete">>, <<"interrupted">>,
               <<"audio", "turn_complete">> }

\* Mutant of TranslatePart: the two turn signals are mixed up.
TranslatePartMixed(p) ==
    CASE p = "audio" -> "audio"
      [] p = "text" -> "text"
      [] p = "turn_complete" -> "interrupted"
      [] p = "interrupted" -> "turnComplete"

\* The client frame for one thing found in a response.
TranslatePart(p) ==
    CASE p = "audio" -> "audio"
      [] p = "text" -> "text"
      [] p = "turn_complete" -> "turnComplete"
      [] p = "interrupted" -> "interrupted"

Translate(resp) == [i \in 1..Len(resp) |-> TranslatePart(resp[i])]

-----------------------------------------------------------------------------
(* server.py: send_to_client *)

\* send_to_client: the frame is written only if is_connected; a write on a
\* closed transport raises inside send_json and the exception is swallowed.
Written(out, frame) ==
    IF is_connected /\ clientOpen THEN Append(out, frame) ELSE out

WritesOnClosed(n) ==
    IF is_connected /\ ~clientOpen THEN n + 1 ELSE n

-----------------------------------------------------------------------------
(* server.py: websocket_endpoint *)

\* Mutant of Enqueue: the new item jumps the queue.
EnqueueFront(q, item) == <<item>> \o q

\* audio_queue.put(audio_bytes) of the read loop.
Enqueue(q, item) == Append(q, item)

\* The finally block: clear the flag, put the sentinel, close the upstream
\* session if there is one.
FinallyQueue(q) == Append(q, NoneItem)

\* Mutant of FinallyCloseCalls: the finally block forgets the session.
FinallyNeverCloses(session, n) == n

FinallyCloseCalls(session, n) == IF session # "None" THEN n + 1 ELSE n

Finally ==
    /\ is_connected' = FALSE
    /\ audio_queue' = FinallyQueue(audio_queue)
    /\ closeCalls' = FinallyCloseCalls(gemini_session, closeCalls)
    /\ pc' = "done"

\* Mutant of HandleFrame: a frame of another type ends the loop as well.
HandleFrameStrict(kind) ==
    CASE kind = "audio" -> "queue"
      [] kind \in {"unknown", "badjson", "nonobject", "badaudio"} -> "break"

\* What the read loop does with one frame: "queue" it, "ignore" it, or
\* "break" out of the loop because processing it raised.
HandleFrame(kind) ==
    CASE kind = "audio" -> "queue"
      [] kind = "unknown" -> "ignore"
      [] kind \in {"badjson", "nonobject", "badaudio"} -> "break"

VAccept ==
    /\ scenario = "voice"
    /\ pc = "accept"
    /\ pc' = "connect"
    /\ UNCHANGED <<scenario, ttsVars, httpVars, is_connected, gemini_session, audio_queue,
                   send_pc, inflight, recv_pc, pending, clientOpen, clientIn,
                   clientOut, closedWrites, upstreamCalls, upstreamOut,
                   upstreamLog, closeCalls, connectFailed, sendFailed, recvFailed>>

\* Mutant of VConnectOk: the tasks are created without the greeting.
VConnectOkNoGreeting ==
    /\ scenario = "voice"
    /\ pc = "connect"
    /\ gemini_session' = "session"
    /\ recv_pc' = "start"
    /\ send_pc' = "start"
    /\ pc' = "loop"
    /\ UNCHANGED <<scenario, ttsVars, httpVars, is_connected, audio_queue, inflight, pending,
                   clientOpen, clientIn, clientOut, closedWrites, upstreamCalls,
                   upstreamOut,
                   upstreamLog, closeCalls, connectFailed, sendFailed,
                   recvFailed>>

\* connect returned: send "connected", create the two tasks, enter the loop.
VConnectOk ==
    /\ scenario = "voice"
    /\ pc = "connect"
    /\ gemini_session' = "session"
    /\ clientOut' = Written(clientOut, "connected")
    /\ closedWrites' = WritesOnClosed(closedWrites)
    /\ recv_pc' = "start"
    /\ send_pc' = "start"
    /\ pc' = "loop"
    /\ UNCHANGED <<scenario, ttsVars, httpVars, is_connected, audio_queue, inflight, pending,
                   clientOpen, clientIn, upstreamCalls, upstreamOut,
                   upstreamLog, closeCalls, connectFailed, sendFailed, recvFailed>>

\* Mutant of VConnectFail: the failure is not reported to the client.
VConnectFailSilent ==
    /\ scenario = "voice"
    /\ pc = "connect"
    /\ connectFailed' = TRUE
    /\ Finally
    /\ UNCHANGED <<scenario, ttsVars, httpVars, gemini_session, send_pc,
                   inflight, recv_pc, pending, clientOpen, clientIn, clientOut,
                   closedWrites, upstreamCalls, upstreamOut,
                   upstreamLog, sendFailed,
                   recvFailed>>

\* connect raised: the outer except sends "error", then the finally block.
VConnectFail ==
    /\ scenario = "voice"
    /\ pc = "connect"
    /\ connectFailed' = TRUE
    /\ clientOut' = Written(clientOut, "error")
    /\ closedWrites' = WritesOnClosed(closedWrites)
    /\ Finally
    /\ UNCHANGED <<scenario, ttsVars, httpVars, gemini_session, send_pc, inflight, recv_pc,
                   pending, clientOpen, clientIn, upstreamCalls, upstreamOut,
                   upstreamLog, sendFailed, recvFailed>>

\* receive_text returned a frame.
VReceive(kind) ==
    /\ scenario = "voice"
    /\ pc = "loop"
    /\ is_connected
    /\ clientOpen
    /\ Len(clientIn) < MaxFrames
    /\ LET frame == ClientFrame(kind, Len(clientIn) + 1)
           todo == HandleFrame(kind)
       IN /\ clientIn' = Append(clientIn, frame)
          /\ CASE todo = "queue" ->
                    /\ audio_queue' = Enqueue(audio_queue, B64Decode(frame.data))
                    /\ UNCHANGED <<pc, is_connected, closeCalls>>
               [] todo = "ignore" ->
                    UNCHANGED <<pc, is_connected, closeCalls, audio_queue>>
               [] todo = "break" -> Finally
    /\ UNCHANGED <<scenario, ttsVars, httpVars, gemini_session, send_pc, inflight, recv_pc,
                   pending, clientOpen, clientOut, closedWrites, upstreamCalls,
                   upstreamOut,
                   upstreamLog, connectFailed, sendFailed, recvFailed>>

\* receive_text raised WebSocketDisconnect.
VDisconnect ==
    /\ scenario = "voice"
    /\ pc = "loop"
    /\ is_connected
    /\ ~clientOpen
    /\ Finally
    /\ UNCHANGED <<scenario, ttsVars, httpVars, gemini_session, send_pc, inflight, recv_pc,
                   pending, clientOpen, clientIn, clientOut, closedWrites,
                   upstreamCalls, upstreamOut,
                   upstreamLog, connectFailed, sendFailed,
                   recvFailed>>

-----------------------------------------------------------------------------
(* server.py: send_to_gemini *)

\* The task from its loop test (checkLive) or from inside audio_queue.get()
\* (not checkLive) up to its next suspension.
SendTaskRun(checkLive) ==
    IF checkLive /\ ~(is_connected /\ gemini_session # "None")
    THEN /\ send_pc' = "done"
         /\ UNCHANGED <<audio_queue, inflight, upstreamCalls>>
    ELSE IF audio_queue = <<>>
    THEN /\ send_pc' = "get"
         /\ UNCHANGED <<audio_queue, inflight, upstreamCalls>>
    ELSE /\ audio_queue' = Tail(audio_queue)
         /\ IF Head(audio_queue) = NoneItem
            THEN /\ send_pc' = "done"
                 /\ UNCHANGED <<inflight, upstreamCalls>>
            ELSE /\ send_pc' = "sending"
                 /\ inflight' = Head(audio_queue)
                 /\ upstreamCalls' = Append(upstreamCalls, Head(audio_queue))

sendFrame == <<scenario, ttsVars, httpVars, pc, is_connected, gemini_session, recv_pc, pending,
               clientOpen, clientIn, clientOut, closedWrites, upstreamOut,
               upstreamLog, closeCalls, connectFailed, recvFailed>>

SStart ==
    /\ scenario = "voice"
    /\ send_pc = "start"
    /\ SendTaskRun(TRUE)
    /\ UNCHANGED <<sendFrame, sendFailed>>

\* audio_queue.get() returns to the suspended task.
SWake ==
    /\ scenario = "voice"
    /\ send_pc = "get"
    /\ audio_queue # <<>>
    /\ SendTaskRun(FALSE)
    /\ UNCHANGED <<sendFrame, sendFailed>>

\* send_realtime_input returned.
SSendOk ==
    /\ scenario = "voice"
    /\ send_pc = "sending"
    /\ SendTaskRun(TRUE)
    /\ UNCHANGED <<sendFrame, sendFailed>>

\* send_realtime_input raised: the task logs and ends.
SSendFail ==
    /\ scenario = "voice"
    /\ send_pc = "sending"
    /\ sendFailed' = TRUE
    /\ send_pc' = "done"
    /\ UNCHANGED <<sendFrame, audio_queue, inflight, upstreamCalls>>

-----------------------------------------------------------------------------
(* server.py: receive_from_gemini *)

recvFrame == <<scenario, ttsVars, httpVars, pc, is_connected, gemini_session, audio_queue,
               send_pc, inflight, clientOpen, clientIn, upstreamCalls,
               closeCalls, connectFailed, sendFailed>>

RStart ==
    /\ scenario = "voice"
    /\ recv_pc = "start"
    /\ recv_pc' = IF is_connected /\ gemini_session # "None"
                  THEN "await" ELSE "done"
    /\ UNCHANGED <<recvFrame, pending, clientOut, closedWrites, upstreamOut,
                   upstreamLog, recvFailed>>

\* The stream yields a response: leave if the flag is down, else send the
\* first frame of its translation and keep the others for the next steps.
RResponse(resp) ==
    /\ scenario = "voice"
    /\ recv_pc = "await"
    /\ upstreamOut < MaxUpstream
    /\ upstreamOut' = upstreamOut + 1
    /\ IF ~is_connected
       THEN /\ recv_pc' = "done"
            /\ UNCHANGED <<pending, clientOut, closedWrites, upstreamLog>>
       ELSE IF Translate(resp) = <<>>
       THEN UNCHANGED <<recv_pc, pending, clientOut, closedWrites,
                        upstreamLog>>
       ELSE /\ upstreamLog' = upstreamLog \o resp
            /\ clientOut' = Written(clientOut, Head(Translate(resp)))
            /\ closedWrites' = WritesOnClosed(closedWrites)
            /\ pending' = Tail(Translate(resp))
            /\ recv_pc' = "sending"
    /\ UNCHANGED <<recvFrame, recvFailed>>

\* send_json returned (or raised, swallowed): the next send_to_client, or
\* back to waiting for the next response.
RSendNext ==
    /\ scenario = "voice"
    /\ recv_pc = "sending"
    /\ IF pending = <<>> \/ ~is_connected
       THEN /\ pending' = <<>>
            /\ recv_pc' = "await"
            /\ UNCHANGED <<clientOut, closedWrites>>
       ELSE /\ clientOut' = Written(clientOut, Head(pending))
            /\ closedWrites' = WritesOnClosed(closedWrites)
            /\ pending' = Tail(pending)
            /\ UNCHANGED recv_pc
    /\ UNCHANGED <<recvFrame, upstreamOut, upstreamLog, recvFailed>>

\* The turn's iterator ends: the while test runs again; it starts the next
\* receive() when the flag is up (no change of state) and ends the task
\* when it is down.
RTurnEnd ==
    /\ scenario = "voice"
    /\ recv_pc = "await"
    /\ ~is_connected
    /\ recv_pc' = "done"
    /\ UNCHANGED <<recvFrame, pending, clientOut, closedWrites, upstreamOut,
                   upstreamLog, recvFailed>>

\* The stream raised: the except block sends "error" if the flag is up.
RError ==
    /\ scenario = "voice"
    /\ recv_pc = "await"
    /\ recvFailed' = TRUE
    /\ clientOut' = Written(clientOut, "error")
    /\ closedWrites' = WritesOnClosed(closedWrites)
    /\ recv_pc' = "done"
    /\ UNCHANGED <<recvFrame, pending, upstreamOut, upstreamLog>>

-----------------------------------------------------------------------------
(* The client of the voice relay goes away. *)

ClientClose ==
    /\ scenario = "voice"
    /\ clientOpen
    /\ pc # "done"
    /\ clientOpen' = FALSE
    /\ UNCHANGED <<scenario, ttsVars, httpVars, pc, is_connected, gemini_session, audio_queue,
                   send_pc, inflight, recv_pc, pending, clientIn, clientOut,
                   closedWrites, upstreamCalls, upstreamOut,
                   upstreamLog, closeCalls,
                   connectFailed, sendFailed, recvFailed>>

-----------------------------------------------------------------------------
(* tts_server.py: the session store *)

\* timedelta(hours=24) of create_session.
SessionTTLHours == 24

ADMIN_USERNAME == "admin"

\* Cookie(None): the request carries no session_token cookie.
NoToken == 0

\* The cookies a request can carry: none, a token create_session returned
\* or will return, and one that is never created.
Cookies == 0..(MaxTokens + 1)

\* create_session: the record stored under the new token.
NewSession(username, t) ==
    [username |-> username, created_at |-> t,
     expires_at |-> t + SessionTTLHours]

StorePut(store, token, rec) ==
    [k \in (DOMAIN store) \cup {token} |->
        IF k = token THEN rec ELSE store[k]]

StoreDel(store, token) ==
    [k \in (DOMAIN store) \ {token} |-> store[k]]

\* verify_session: the session under the token is expired.
Expired(session, t) == t > session.expires_at

\* Mutant of VerifyResult: the expiry is not looked at.
VerifyResultIgnoresExpiry(store, token, t) ==
    ~(token = NoToken \/ token \notin DOMAIN store)

\* verify_session: the value returned.
VerifyResult(store, token, t) ==
    IF token = NoToken \/ token \notin DOMAIN store THEN FALSE
    ELSE IF Expired(store[token], t) THEN FALSE
    ELSE TRUE

\* Mutant of VerifyStore: every expired entry is swept, not only the
\* verified token's.
VerifyStoreSweeps(store, token, t) ==
    IF token = NoToken \/ token \notin DOMAIN store THEN store
    ELSE [k \in {x \in DOMAIN store : ~Expired(store[x], t)} |-> store[k]]

\* verify_session: the store it leaves.
VerifyStore(store, token, t) ==
    IF token = NoToken \/ token \notin DOMAIN store THEN store
    ELSE IF Expired(store[token], t) THEN StoreDel(store, token)
    ELSE store

\* sessions[token]["username"]: the lookup raises KeyError when the token
\* has no entry.
OwnerRead(store, token) ==
    IF token \in DOMAIN store
    THEN [raised |-> FALSE, username |-> store[token].username]
    ELSE [raised |-> TRUE, username |-> ""]

\* del sessions[token]: raises KeyError when the token has no entry.
DelRaises(store, token) == token \notin DOMAIN store

\* Mutant of LogoutRaises: the entry is deleted without the membership test.
LogoutRaisesUnguarded(store, token) == DelRaises(store, token)

\* logout: whether it raises.
LogoutRaises(store, token) ==
    IF token # NoToken /\ token \in DOMAIN store
    THEN DelRaises(store, token) ELSE FALSE

\* Mutant of LogoutStore: logout clears the cookie only.
LogoutKeepsEntry(store, token) == store

\* logout: the store it leaves.
LogoutStore(store, token) ==
    IF token # NoToken /\ token \in DOMAIN store
    THEN StoreDel(store, token) ELSE store

\* POST /api/login with the admin credentials (ok) or others.
Login(ok) ==
    /\ scenario = "tts_http"
    /\ IF ok
       THEN /\ nextToken <= MaxTokens
            /\ sessions' = StorePut(sessions, nextToken,
                                    NewSession(ADMIN_USERNAME, now))
            /\ issued' = StorePut(issued, nextToken,
                                  NewSession(ADMIN_USERNAME, now))
            /\ nextToken' = nextToken + 1
            /\ lastResp' = [op |-> "login", token |-> nextToken,
                            ok |-> TRUE, username |-> ADMIN_USERNAME,
                            at |-> now, raised |-> FALSE]
       ELSE /\ lastResp' = [op |-> "login", token |-> NoToken,
                            ok |-> FALSE, username |-> "", at |-> now,
                            raised |-> FALSE]
            /\ UNCHANGED <<sessions, issued, nextToken>>
    /\ UNCHANGED <<scenario, voiceVars, ttsVars, now, revoked>>

\* POST /api/logout.
Logout(token) ==
    /\ scenario = "tts_http"
    /\ sessions' = LogoutStore(sessions, token)
    /\ revoked' = IF token \in DOMAIN sessions
                  THEN revoked \cup {token} ELSE revoked
    /\ lastResp' = [op |-> "logout", token |-> token,
                    ok |-> ~LogoutRaises(sessions, token),
                    username |-> "", at |-> now,
                    raised |-> LogoutRaises(sessions, token)]
    /\ UNCHANGED <<scenario, voiceVars, ttsVars, now, nextToken, issued>>

\* GET /api/me.
GetMe(token) ==
    /\ scenario = "tts_http"
    /\ sessions' = VerifyStore(sessions, token, now)
    /\ lastResp' =
         IF VerifyResult(sessions, token, now)
         THEN LET owner == OwnerRead(VerifyStore(sessions, token, now), token)
              IN [op |-> "me", token |-> token, ok |-> ~owner.raised,
                  username |-> owner.username, at |-> now,
                  raised |-> owner.raised]
         ELSE [op |-> "me", token |-> token, ok |-> FALSE, username |-> "",
               at |-> now, raised |-> FALSE]
    /\ UNCHANGED <<scenario, voiceVars, ttsVars, now, nextToken, issued,
                   revoked>>

\* GET /tts: the page, or a redirect to the login page.
ServeTts(token) ==
    /\ scenario = "tts_http"
    /\ sessions' = VerifyStore(sessions, token, now)
    /\ lastResp' = [op |-> "tts_page", token |-> token,
                    ok |-> VerifyResult(sessions, token, now),
                    username |-> "", at |-> now, raised |-> FALSE]
    /\ UNCHANGED <<scenario, voiceVars, ttsVars, now, nextToken, issued,
                   revoked>>

\* Time passes.
Tick ==
    /\ scenario = "tts_http"
    /\ now + TickHours <= MaxNow
    /\ now' = now + TickHours
    /\ UNCHANGED <<scenario, voiceVars, ttsVars, sessions, nextToken, issued,
                   revoked, lastResp>>

HttpInit ==
    /\ sessions = <<>>
    /\ now = 0
    /\ nextToken = 1
    /\ issued = <<>>
    /\ revoked = {}
    /\ lastResp = [op |-> "none", token |-> NoToken, ok |-> FALSE,
                   username |-> "", at |-> 0, raised |-> FALSE]

-----------------------------------------------------------------------------
(* tts_server.py: websocket_tts *)

\* What a client text frame can be, as websocket_tts sees it.
\*   tts            {"type":"tts","text":<non-empty string>}
\*   tts_empty      type "tts" with no text or an empty one
\*   tts_nonstring  type "tts" whose text is a number: text[:50] raises
\*   unknown        a JSON object whose type is missing or not "tts"
\*   badjson        not JSON: json.loads raises
\*   nonobject      JSON that is no object: message.get raises
TtsFrameKinds == {"tts", "tts_empty", "tts_nonstring", "unknown", "badjson",
                  "nonobject"}

\* A text is the sequence of its characters.  The second one holds two
\* sentences, a run of two blanks between them, and is longer than MaxChunk.
Texts == {<<"a">>, <<"a", ".", " ", " ", "b">>}

TtsFrame(kind, text) ==
    [kind |-> kind, text |-> IF kind = "tts" THEN text ELSE <<>>]

\* What the loop does with one frame: serve the "request", "ignore" the
\* frame and read the next one, or "end" because an exception reached the
\* outer handlers.
HandleTtsFrame(kind) ==
    CASE kind = "tts" -> "request"
      [] kind \in {"tts_empty", "unknown"} -> "ignore"
      [] kind \in {"badjson", "nonobject", "tts_nonstring"} -> "end"

Whitespace == {" "}

\* Whitespace normalisation: every run of whitespace becomes one blank, and
\* none is left at either end.
RECURSIVE Collapse(_)
Collapse(text) ==
    IF text = <<>> THEN <<>>
    ELSE IF Head(text) \in Whitespace
    THEN IF Len(text) = 1 \/ text[2] \in Whitespace
         THEN Collapse(Tail(text))
         ELSE <<" ">> \o Collapse(Tail(text))
    ELSE <<Head(text)>> \o Collapse(Tail(text))

Normalize(text) ==
    LET c == Collapse(text)
    IN IF c # <<>> /\ Head(c) \in Whitespace THEN Tail(c) ELSE c

\* The instruction the f-string puts before the text, taken as one character.
PromptPrefix == <<"Please read this text aloud: ">>

\* Mutant of Prompt: the text is normalised before it is submitted.
PromptNormalized(text) == PromptPrefix \o Normalize(text)

\* The text of the turn submitted for a request: the f-string.
Prompt(text) == PromptPrefix \o text

\* One element of the upstream receive stream.
TtsResponses == [audio : BOOLEAN, turn_complete : BOOLEAN]

\* The client frames for one response, in the order they are sent.
TtsTranslate(resp) ==
    (IF resp.audio THEN <<"audio">> ELSE <<>>)
    \o (IF resp.turn_complete THEN <<"complete">> ELSE <<>>)

\* The number of the request being served: frames are observed with it.
ReqNo == Cardinality({i \in 1..Len(ttsIn) : ttsIn[i].kind = "tts"})

Tagged(frames) == [i \in 1..Len(frames) |-> [req |-> ReqNo, type |-> frames[i]]]

\* Mutant of StreamEndsOn: the break is missing.
StreamNeverEnds(resp) == FALSE

\* The turn_complete branch ends the "async for" with break.
StreamEndsOn(resp) == resp.turn_complete

ttsFrame == <<scenario, voiceVars, httpVars>>

\* await websocket.accept(): nothing is checked before it.  The handshake
\* carries the client's cookies; what verify_session would have said of the
\* session_token cookie is recorded.
TAccept(cookie) ==
    /\ scenario \in {"tts_ws", "tts_http"}
    /\ tts_pc = "accept"
    /\ tts_pc' = "recv"
    /\ ttsAuthorized' = VerifyResult(sessions, cookie, now)
    /\ UNCHANGED <<ttsFrame, tts_text, tts_open, tts_got, ttsClientOpen, ttsIn,
                   ttsOut, ttsClosedWrites, ttsSubmitted, ttsSessions,
                   ttsFailed>>

\* receive_text returned a frame.
TReceive(kind, text) ==
    /\ scenario = "tts_ws"
    /\ tts_pc = "recv"
    /\ ttsClientOpen
    /\ Len(ttsIn) < MaxTtsFrames
    /\ ttsIn' = Append(ttsIn, TtsFrame(kind, text))
    /\ CASE HandleTtsFrame(kind) = "request" ->
              /\ tts_pc' = "connect"
              /\ tts_text' = TtsFrame(kind, text).text
         [] HandleTtsFrame(kind) = "ignore" ->
              UNCHANGED <<tts_pc, tts_text>>
         [] HandleTtsFrame(kind) = "end" ->
              /\ tts_pc' = "done"
              /\ UNCHANGED tts_text
    /\ UNCHANGED <<ttsFrame, tts_open, tts_got, ttsAuthorized, ttsClientOpen,
                   ttsOut, ttsClosedWrites, ttsSubmitted, ttsSessions,
                   ttsFailed>>

\* receive_text raised WebSocketDisconnect.
TDisconnect ==
    /\ scenario = "tts_ws"
    /\ tts_pc = "recv"
    /\ ~ttsClientOpen
    /\ tts_pc' = "done"
    /\ UNCHANGED <<ttsFrame, tts_text, tts_open, tts_got, ttsAuthorized,
                   ttsClientOpen, ttsIn, ttsOut, ttsClosedWrites,
                   ttsSubmitted, ttsSessions, ttsFailed>>

\* The inner except block: the session, if any, has been released by
\* "async with"; the error frame is sent, and a failure of that send ends
\* the handler through the outer handlers.
TtsReportError ==
    /\ tts_open' = 0
    /\ ttsFailed' = IF tts_pc = "connect" THEN ttsFailed ELSE ttsFailed + 1
    /\ IF ttsClientOpen
       THEN /\ ttsOut' = ttsOut \o Tagged(<<"error">>)
            /\ tts_pc' = "recv"
            /\ UNCHANGED ttsClosedWrites
       ELSE /\ ttsClosedWrites' = ttsClosedWrites + 1
            /\ tts_pc' = "done"
            /\ UNCHANGED ttsOut

\* connect returned: the session is open and the text is submitted.
TConnectOk ==
    /\ scenario = "tts_ws"
    /\ tts_pc = "connect"
    /\ tts_open' = tts_open + 1
    /\ ttsSessions' = ttsSessions + 1
    /\ tts_got' = 0
    /\ ttsSubmitted' = Append(ttsSubmitted,
                              [req |-> ReqNo, text |-> Prompt(tts_text)])
    /\ tts_pc' = "sendtext"
    /\ UNCHANGED <<ttsFrame, tts_text, ttsAuthorized, ttsClientOpen, ttsIn,
                   ttsOut, ttsClosedWrites, ttsFailed>>

\* connect raised.
TConnectFail ==
    /\ scenario = "tts_ws"
    /\ tts_pc = "connect"
    /\ TtsReportError
    /\ UNCHANGED <<ttsFrame, tts_text, tts_got, ttsAuthorized, ttsClientOpen,
                   ttsIn, ttsSubmitted, ttsSessions>>

\* send_client_content returned: wait for the first response.
TSendTextOk ==
    /\ scenario = "tts_ws"
    /\ tts_pc = "sendtext"
    /\ tts_pc' = "stream"
    /\ UNCHANGED <<ttsFrame, tts_text, tts_open, tts_got, ttsAuthorized,
                   ttsClientOpen, ttsIn, ttsOut, ttsClosedWrites,
                   ttsSubmitted, ttsSessions, ttsFailed>>

\* send_client_content raised.
TSendTextFail ==
    /\ scenario = "tts_ws"
    /\ tts_pc = "sendtext"
    /\ TtsReportError
    /\ UNCHANGED <<ttsFrame, tts_text, tts_got, ttsAuthorized, ttsClientOpen,
                   ttsIn, ttsSubmitted, ttsSessions>>

\* The stream yields a response: its frames are sent; a send on a closed
\* transport raises, and so does the send of the error frame that follows.
TResponse(resp) ==
    /\ scenario = "tts_ws"
    /\ tts_pc = "stream"
    /\ tts_got < MaxTtsResponses
    /\ tts_got' = tts_got + 1
    /\ IF TtsTranslate(resp) = <<>>
       THEN UNCHANGED <<tts_pc, tts_open, ttsOut, ttsClosedWrites>>
       ELSE IF ttsClientOpen
       THEN /\ ttsOut' = ttsOut \o Tagged(TtsTranslate(resp))
            /\ IF StreamEndsOn(resp)
               THEN tts_pc' = "recv" /\ tts_open' = 0
               ELSE UNCHANGED <<tts_pc, tts_open>>
            /\ UNCHANGED ttsClosedWrites
       ELSE /\ ttsClosedWrites' = ttsClosedWrites + 2
            /\ tts_open' = 0
            /\ tts_pc' = "done"
            /\ UNCHANGED ttsOut
    /\ UNCHANGED <<ttsFrame, tts_text, ttsAuthorized, ttsClientOpen, ttsIn,
                   ttsSubmitted, ttsSessions, ttsFailed>>

\* Mutant of TStreamEnd: the session is not released when the stream ends.
TStreamEndKeepsSession ==
    /\ scenario = "tts_ws"
    /\ tts_pc = "stream"
    /\ tts_pc' = "recv"
    /\ UNCHANGED <<ttsFrame, tts_text, tts_open, tts_got, ttsAuthorized,
                   ttsClientOpen, ttsIn, ttsOut, ttsClosedWrites,
                   ttsSubmitted, ttsSessions, ttsFailed>>

\* The stream ends without turn_complete: the session is released and the
\* next client frame is read.
TStreamEnd ==
    /\ scenario = "tts_ws"
    /\ tts_pc = "stream"
    /\ tts_open' = 0
    /\ tts_pc' = "recv"
    /\ UNCHANGED <<ttsFrame, tts_text, tts_got, ttsAuthorized, ttsClientOpen,
                   ttsIn, ttsOut, ttsClosedWrites, ttsSubmitted, ttsSessions,
                   ttsFailed>>

\* The stream raised.
TStreamError ==
    /\ scenario = "tts_ws"
    /\ tts_pc = "stream"
    /\ TtsReportError
    /\ UNCHANGED <<ttsFrame, tts_text, tts_got, ttsAuthorized, ttsClientOpen,
                   ttsIn, ttsSubmitted, ttsSessions>>

\* The client of the TTS relay goes away.
TClientClose ==
    /\ scenario = "tts_ws"
    /\ ttsClientOpen
    /\ tts_pc # "done"
    /\ ttsClientOpen' = FALSE
    /\ UNCHANGED <<ttsFrame, tts_pc, tts_text, tts_open, tts_got,
                   ttsAuthorized, ttsIn, ttsOut, ttsClosedWrites,
                   ttsSubmitted, ttsSessions, ttsFailed>>

TtsInit ==
    /\ tts_pc = "accept"
    /\ tts_text = <<>>
    /\ tts_open = 0
    /\ tts_got = 0
    /\ ttsAuthorized = FALSE
    /\ ttsClientOpen = TRUE
    /\ ttsIn = <<>>
    /\ ttsOut = <<>>
    /\ ttsClosedWrites = 0
    /\ ttsSubmitted = <<>>
    /\ ttsSessions = 0
    /\ ttsFailed = 0

-----------------------------------------------------------------------------

VoiceInit ==
    /\ pc = "accept"
    /\ is_connected = TRUE
    /\ gemini_session = "None"
    /\ audio_queue = <<>>
    /\ send_pc = "notstarted"
    /\ inflight = NoneItem
    /\ recv_pc = "notstarted"
    /\ pending = <<>>
    /\ clientOpen = TRUE
    /\ clientIn = <<>>
    /\ clientOut = <<>>
    /\ closedWrites = 0
    /\ upstreamCalls = <<>>
    /\ upstreamOut = 0
    /\ upstreamLog = <<>>
    /\ closeCalls = 0
    /\ connectFailed = FALSE
    /\ sendFailed = FALSE
    /\ recvFailed = FALSE

\* server.py and tts_server.py are two programs.  In tts_server.py the HTTP
\* handlers work on the session store only and websocket_tts on its
\* connection only (it never reads the store), so the two are exercised one
\* at a time: "tts_http" is HTTP traffic, during which a WebSocket handshake
\* may arrive and is followed up to its acceptance; "tts_ws" is one
\* WebSocket connection from its handshake to its end.
Init ==
    /\ scenario \in {"voice", "tts_ws", "tts_http"}
    /\ VoiceInit
    /\ TtsInit
    /\ HttpInit

Next ==
    \/ VAccept
    \/ VConnectOk
    \/ VConnectFail
    \/ \E kind \in FrameKinds : VReceive(kind)
    \/ VDisconnect
    \/ SStart
    \/ SWake
    \/ SSendOk
    \/ SSendFail
    \/ RStart
    \/ \E resp \in Responses : RResponse(resp)
    \/ RSendNext
    \/ RTurnEnd
    \/ RError
    \/ ClientClose
    \/ \E ok \in BOOLEAN : Login(ok)
    \/ \E token \in Cookies : Logout(token)
    \/ \E token \in Cookies : GetMe(token)
    \/ \E token \in Cookies : ServeTts(token)
    \/ Tick
    \/ \E cookie \in Cookies : TAccept(cookie)
    \/ \E kind \in TtsFrameKinds, text \in Texts : TReceive(kind, text)
    \/ TDisconnect
    \/ TConnectOk
    \/ TConnectFail
    \/ TSendTextOk
    \/ TSendTextFail
    \/ \E resp \in TtsResponses : TResponse(resp)
    \/ TStreamEnd
    \/ TStreamError
    \/ TClientClose

Spec == Init /\ [][Next]_vars

\* The event loop runs every task that is ready, and an awaited upstream
\* send returns or raises.  Nothing makes the client or the upstream stream
\* produce anything.
FairSpec ==
    /\ Init
    /\ [][Next]_vars
    /\ WF_vars(SStart \/ SWake \/ SSendOk \/ SSendFail)
    /\ WF_vars(RStart \/ RSendNext)

-----------------------------------------------------------------------------
(* Observations used by the properties *)

\* The payloads of the audio frames the read loop has received, in order.
AudioPayloads ==
    LET a == SelectSeq(clientIn, LAMBDA f : f.kind = "audio")
    IN [i \in 1..Len(a) |-> B64Decode(a[i].data)]

\* The payloads still waiting in the queue, in order.
QueuedPayloads == SelectSeq(audio_queue, LAMBDA x : x # NoneItem)

Count(seq, x) == Cardinality({i \in 1..Len(seq) : seq[i] = x})

-----------------------------------------------------------------------------
(* C1 *)

\* C1 as stated: once the connection has ended and the forwarding task has
\* finished, every audio frame the client sent (no upstream response, no
\* upstream failure, no other kind of frame in between) has been passed to
\* send_realtime_input, in order.
C1_AllForwarded ==
    ( /\ scenario = "voice"
      /\ pc = "done"
      /\ send_pc = "done"
      /\ gemini_session # "None"
      /\ upstreamOut = 0
      /\ ~sendFailed /\ ~recvFailed
      /\ \A i \in 1..Len(clientIn) : clientIn[i].kind = "audio" )
    => upstreamCalls = AudioPayloads

\* C1: the payloads passed to send_realtime_input, followed by the payloads
\* still in the queue, are at every moment exactly the payloads of the audio
\* frames received, in the client's order: no frame is duplicated, reordered
\* or skipped, and the only frames not passed are those left in the queue.
C1_FifoConservation ==
    scenario = "voice" => upstreamCalls \o QueuedPayloads = AudioPayloads

\* Three audio frames received and all three passed on, in order, before
\* any upstream response.
C1_Witness ==
    /\ scenario = "voice"
    /\ upstreamOut = 0
    /\ Len(AudioPayloads) = 3
    /\ upstreamCalls = AudioPayloads

-----------------------------------------------------------------------------
(* C3 *)

\* C3: once the client has disconnected from a connection that was
\* streaming (the upstream connect succeeded and the client got the
\* connected frame), both forwarding tasks eventually terminate.
C3_TasksTerminate ==
    (scenario = "voice" /\ pc = "done" /\ ~clientOpen
        /\ gemini_session # "None"
        /\ clientOut # <<>> /\ Head(clientOut) = "connected")
    ~> (send_pc = "done" /\ recv_pc = "done")

-----------------------------------------------------------------------------
(* C4 *)

\* C4: gemini_session.close() is never called before the handler ends nor
\* more than once, and when the handler has ended it has been called exactly
\* once if the upstream connect succeeded (and not at all if it failed),
\* whatever ended the connection.
C4_CloseExactlyOnce ==
    scenario = "voice" =>
        /\ closeCalls <= 1
        /\ pc # "done" => closeCalls = 0
        /\ (pc = "done" /\ ~connectFailed) => closeCalls = 1
        /\ (pc = "done" /\ connectFailed) => closeCalls = 0

\* A connection that saw an upstream failure has ended with one close.
C4_Witness ==
    /\ scenario = "voice"
    /\ pc = "done"
    /\ recvFailed
    /\ sendFailed
    /\ closeCalls = 1

-----------------------------------------------------------------------------
(* C9 *)

\* C9: when the upstream connect has failed the handler has ended: the only
\* frame sent to the client is one error frame (none reaches a client that
\* is already gone), never a connected frame; no forwarding task was
\* started, no client frame was read, nothing was passed to the upstream
\* and no upstream session was closed.
C9_ConnectFailureCloses ==
    (scenario = "voice" /\ connectFailed) =>
        /\ pc = "done"
        /\ ~is_connected
        /\ send_pc = "notstarted"
        /\ recv_pc = "notstarted"
        /\ clientIn = <<>>
        /\ upstreamCalls = <<>>
        /\ closeCalls = 0
        /\ gemini_session = "None"
        /\ clientOut = IF closedWrites = 0 THEN <<"error">> ELSE <<>>
        /\ closedWrites <= 1

\* The connect failed and the client got the error frame.
C9_Witness ==
    /\ scenario = "voice"
    /\ connectFailed
    /\ clientOut = <<"error">>

-----------------------------------------------------------------------------
(* C2 *)

\* C2: the TTS WebSocket is accepted, and an upstream session opened, only
\* for a client whose session cookie verify_session accepted at that moment.
C2_AcceptRequiresValidToken ==
    (scenario \in {"tts_ws", "tts_http"}
        /\ (tts_pc # "accept" \/ ttsSessions > 0))
    => ttsAuthorized

-----------------------------------------------------------------------------
(* C5 *)

\* C5: the answer of GET /api/me follows the life of the token: a token
\* create_session never returned, a token logout has revoked and a token
\* whose expires_at has passed are reported logged out; a token that was
\* created, not revoked and has not reached expires_at is reported logged in
\* with the username it was created for.
C5_VerifyFollowsLifecycle ==
    (scenario = "tts_http" /\ lastResp.op = "me") =>
        LET t == lastResp.token IN
        /\ t \notin DOMAIN issued => ~lastResp.ok
        /\ t \in revoked => ~lastResp.ok
        /\ (t \in DOMAIN issued /\ lastResp.at > issued[t].expires_at)
              => ~lastResp.ok
        /\ (t \in DOMAIN issued /\ t \notin revoked
               /\ lastResp.at < issued[t].expires_at)
              => (lastResp.ok /\ lastResp.username = issued[t].username)

\* /api/me answered for a cookie whose session logout had deleted, while
\* the session would not have expired yet.
C5_Witness ==
    /\ scenario = "tts_http"
    /\ lastResp.op = "me"
    /\ lastResp.token \in revoked
    /\ lastResp.at < issued[lastResp.token].expires_at
    /\ ~lastResp.ok

-----------------------------------------------------------------------------
(* C6 *)

\* C6: verify_session accepts a token exactly when its entry is in the store
\* (created, not revoked) and now < expires_at, so that at now = expires_at
\* the token is refused.
C6_StrictExpiry ==
    (scenario = "tts_http" /\ lastResp.op \in {"me", "tts_page"}) =>
        LET t == lastResp.token IN
        lastResp.ok <=> ( /\ t \in DOMAIN issued
                          /\ t \notin revoked
                          /\ lastResp.at < issued[t].expires_at )

-----------------------------------------------------------------------------
(* C7 *)

\* The kind of the frame a step has just read from the voice client, or
\* "none".
VoiceRead ==
    IF scenario = "voice" /\ Len(clientIn') = Len(clientIn) + 1
    THEN clientIn'[Len(clientIn')].kind ELSE "none"

\* The kind of the frame a step has just read from the TTS client, or "none".
TtsRead ==
    IF scenario = "tts_ws" /\ Len(ttsIn') = Len(ttsIn) + 1
    THEN ttsIn'[Len(ttsIn')].kind ELSE "none"

\* Reading the frame changed nothing in the voice relay but the record of it.
VoiceUntouched ==
    UNCHANGED <<pc, is_connected, gemini_session, audio_queue, send_pc,
                inflight, recv_pc, pending, clientOut, closedWrites,
                upstreamCalls, closeCalls>>

\* Reading the frame changed nothing in the TTS relay but the record of it.
TtsUntouched ==
    UNCHANGED <<tts_pc, tts_text, tts_open, tts_got, ttsOut, ttsClosedWrites,
                ttsSubmitted, ttsSessions, ttsFailed>>

\* C7 as stated: a frame that is not valid JSON, or is JSON with an unknown
\* or missing type, changes nothing in either relay and the read loop goes
\* on.
C7_MalformedIgnored ==
    [][ /\ VoiceRead \in {"unknown", "badjson"} => VoiceUntouched
        /\ TtsRead \in {"unknown", "badjson"} => TtsUntouched ]_vars

\* C7: in both relays a frame that is a JSON object with an unknown or
\* missing type changes nothing (nothing is sent upstream or to the client)
\* and the read loop goes on to the next frame; a frame that is not valid
\* JSON, or is JSON but no object, sends nothing upstream either and ends
\* the read loop, so the connection closes.
C7_UnknownIgnoredBadJsonEnds ==
    [][ /\ VoiceRead = "unknown" => (VoiceUntouched /\ pc' = "loop")
        /\ VoiceRead \in {"badjson", "nonobject"} =>
              ( /\ pc' = "done"
                /\ ~is_connected'
                /\ upstreamCalls' = upstreamCalls
                /\ QueuedPayloads' = QueuedPayloads )
        /\ TtsRead = "unknown" => (TtsUntouched /\ tts_pc' = "recv")
        /\ TtsRead \in {"badjson", "nonobject"} =>
              ( /\ tts_pc' = "done"
                /\ ttsSubmitted' = ttsSubmitted
                /\ ttsOut' = ttsOut ) ]_vars

\* A frame of unknown type was read and the audio frame that followed it
\* was passed to the upstream.
C7_Witness ==
    /\ scenario = "voice"
    /\ Len(clientIn) >= 2
    /\ clientIn[1].kind = "unknown"
    /\ clientIn[2].kind = "audio"
    /\ upstreamCalls = <<2>>

-----------------------------------------------------------------------------
(* C8 *)

\* C8: once the upstream has failed after connect, no further client frame
\* is read and no further upstream session is opened; and a failure that
\* happens while the client is connected has been reported to it as exactly
\* one error frame.
C8_UpstreamFailureEndsConnection ==
    [][ /\ scenario = "voice" =>
              /\ (sendFailed \/ recvFailed) => clientIn' = clientIn
              /\ ( /\ sendFailed' \/ recvFailed'
                   /\ ~(sendFailed \/ recvFailed)
                   /\ is_connected /\ clientOpen )
                 => Count(clientOut', "error") = 1
        /\ (scenario = "tts_ws" /\ ttsFailed > 0) =>
              (ttsIn' = ttsIn /\ ttsSessions' = ttsSessions)
      ]_vars

-----------------------------------------------------------------------------
(* C10 *)

\* The frames of request r written to the client, in order.
FramesOf(r) == SelectSeq(ttsOut, LAMBDA f : f.req = r)

-----------------------------------------------------------------------------
(* C11 *)

\* The texts of the requests of the connection, in order.
TtsRequests == SelectSeq(ttsIn, LAMBDA f : f.kind = "tts")

\* The pieces submitted for request r, in submission order, each without
\* the instruction put before it.
PiecesOf(r) ==
    LET own == SelectSeq(ttsSubmitted, LAMBDA x : x.req = r)
    IN [i \in 1..Len(own) |-> Tail(own[i].text)]

RECURSIVE Concat(_)
Concat(pieces) ==
    IF pieces = <<>> THEN <<>> ELSE Head(pieces) \o Concat(Tail(pieces))

SentenceEnd == {".", "!", "?"}

\* A piece that holds no sentence boundary before its last character cannot
\* be split any further.
Unsplittable(piece) ==
    \A i \in 1..(Len(piece) - 1) : piece[i] \notin SentenceEnd

-----------------------------------------------------------------------------
(* C12 *)

\* C12 as stated: no write to the client transport is attempted once the
\* transport has closed, in the voice relay and in the TTS relay alike.
C12_NoWriteAfterClose ==
    /\ scenario = "voice" => closedWrites = 0
    /\ scenario = "tts_ws" => ttsClosedWrites = 0

-----------------------------------------------------------------------------
(* C13 *)

\* C13: in every interleaving of logins, logouts, verifications (GET
\* /api/me, GET /tts) and the passing of time, over all tokens, no handler
\* ends with an exception, and /api/me names an owner only for a token that
\* was created, with the owner it was created for, that no earlier logout
\* has revoked and whose expires_at had not passed when the verification
\* began.
C13_VerifySafeUnderInterleaving ==
    scenario = "tts_http" =>
        /\ ~lastResp.raised
        /\ (lastResp.op = "me" /\ lastResp.username # "") =>
              LET t == lastResp.token IN
              /\ lastResp.ok
              /\ t \in DOMAIN issued
              /\ lastResp.username = issued[t].username
              /\ t \notin revoked
              /\ ~(issued[t].expires_at < lastResp.at)
        /\ (lastResp.op = "me" /\ lastResp.ok) => lastResp.username # ""

\* /api/me names the owner of the second token after the first one was
\* revoked by a logout and time has passed since the second login.
C13_Witness ==
    /\ scenario = "tts_http"
    /\ lastResp.op = "me"
    /\ lastResp.ok
    /\ lastResp.token = 2
    /\ lastResp.username = ADMIN_USERNAME
    /\ 1 \in revoked
    /\ lastResp.at > issued[2].created_at

-----------------------------------------------------------------------------
(* C14 *)

\* C14: on a voice connection whose upstream connect succeeded, the
\* connected frame is sent exactly once, only after connect has returned a
\* session, and before any other frame: whatever the client has received
\* starts with connected and holds it once; if the client had gone when it
\* was sent, the client receives nothing at all.  When connect failed the
\* client never receives connected.
C14_ConnectedFirstOnce ==
    scenario = "voice" =>
        /\ Count(clientOut, "connected") <= 1
        /\ gemini_session = "None" => Count(clientOut, "connected") = 0
        /\ gemini_session # "None" =>
              \/ /\ clientOut # <<>>
                 /\ Head(clientOut) = "connected"
              \/ /\ clientOut = <<>>
                 /\ closedWrites >= 1
        /\ (pc \in {"accept", "connect"}) =>
              (clientOut = <<>> /\ recv_pc = "notstarted"
                  /\ send_pc = "notstarted")

\* The client has received connected and then the frames of two upstream
\* responses.
C14_Witness ==
    /\ scenario = "voice"
    /\ Len(clientOut) >= 4
    /\ Head(clientOut) = "connected"
    /\ upstreamOut = 2
    /\ \E i \in 2..Len(clientOut) : clientOut[i] = "audio"
    /\ \E i \in 2..Len(clientOut) : clientOut[i] = "turnComplete"

-----------------------------------------------------------------------------
(* C15 *)

\* The client frame the relay owes for one thing the upstream produced.
FrameFor(p) ==
    CASE p = "audio" -> "audio"
      [] p = "text" -> "text"
      [] p = "turn_complete" -> "turnComplete"
      [] p = "interrupted" -> "interrupted"

Owed == [i \in 1..Len(upstreamLog) |-> FrameFor(upstreamLog[i])]

\* The frames the client received from the receive stream.
Relayed == SelectSeq(clientOut, LAMBDA f : f \notin {"connected", "error"})

IsPrefix(a, b) == Len(a) <= Len(b) /\ a = SubSeq(b, 1, Len(a))

\* C15: the frames the client has received from the receive stream are, in
\* order, the frames owed for what the upstream produced (audio for an
\* audio part, text for a text part, turnComplete for turn-complete,
\* interrupted for interrupted), one for one: always a prefix of them, and,
\* while the client is there and the flag is up, all of them but the frames
\* of the current response that are still to be sent.
C15_TranslatedInOrder ==
    scenario = "voice" =>
        /\ IsPrefix(Relayed, Owed)
        /\ (clientOpen /\ is_connected) =>
              /\ Relayed \o pending = Owed
              /\ (recv_pc # "sending") => Relayed = Owed

\* Two responses, one with an audio and a text part and one with audio and
\* turn-complete, have been relayed in full to a client that is still there.
C15_Witness ==
    /\ scenario = "voice"
    /\ clientOpen /\ is_connected
    /\ recv_pc = "await"
    /\ upstreamLog = <<"audio", "text", "audio", "turn_complete">>
    /\ clientOut = <<"connected", "audio", "text", "audio", "turnComplete">>

-----------------------------------------------------------------------------
(* C16 *)

\* C16: a verification (GET /api/me, GET /tts) changes the session store
\* in one way only: it removes the entry of the verified token, and only
\* when the clock has passed that entry's expires_at.  The verification of
\* a valid token, of an unknown one or of no token leaves the store as it
\* was, and no verification touches the entry of another token or changes
\* a stored owner or expires_at.
C16_VerifyOnlyRemovesExpired ==
    [][ ( /\ scenario = "tts_http"
          /\ lastResp'.op \in {"me", "tts_page"}
          /\ (lastResp' # lastResp \/ sessions' # sessions) )
        => LET t == lastResp'.token IN
           /\ DOMAIN sessions' =
                 IF t \in DOMAIN sessions /\ now > sessions[t].expires_at
                 THEN (DOMAIN sessions) \ {t}
                 ELSE DOMAIN sessions
           /\ \A k \in DOMAIN sessions' : sessions'[k] = sessions[k]
           /\ (t \in DOMAIN sessions /\ now <= sessions[t].expires_at)
                 => sessions' = sessions
      ]_vars

\* A verification has just removed the expired entry of its token while
\* the entry of the other token is still in the store.
C16_Witness ==
    /\ scenario = "tts_http"
    /\ lastResp.op \in {"me", "tts_page"}
    /\ ~lastResp.ok
    /\ lastResp.token \in (DOMAIN issued) \ revoked
    /\ lastResp.at > issued[lastResp.token].expires_at
    /\ lastResp.token \notin DOMAIN sessions
    /\ DOMAIN sessions # {}

-----------------------------------------------------------------------------
(* C17 *)

\* C17: logout is total and idempotent.  Whatever the cookie (none, a
\* token never created, one already revoked or already removed, a live
\* one), it ends without an exception and leaves the store without an entry
\* for the token and with every other entry as it was; when the token had
\* no entry the store is unchanged, so that a second logout of the same
\* token changes nothing and raises nothing.
C17_RevokeIdempotentTotal ==
    [][ ( /\ scenario = "tts_http"
          /\ lastResp'.op = "logout"
          /\ (lastResp' # lastResp \/ sessions' # sessions) )
        => LET t == lastResp'.token IN
           /\ lastResp'.ok /\ ~lastResp'.raised
           /\ DOMAIN sessions' = (DOMAIN sessions) \ {t}
           /\ \A k \in DOMAIN sessions' : sessions'[k] = sessions[k]
           /\ (t = NoToken \/ t \notin DOMAIN sessions \/ t \in revoked)
                 => sessions' = sessions
           /\ LogoutStore(sessions', t) = sessions'
           /\ ~LogoutRaises(sessions', t)
      ]_vars

\* A logout has been answered for a token whose entry was no longer in the
\* store (a verification had removed it on expiry), with another token's
\* entry in the store.
C17_Witness ==
    /\ scenario = "tts_http"
    /\ lastResp.op = "logout"
    /\ lastResp.ok
    /\ lastResp.token \in (DOMAIN issued) \ revoked
    /\ lastResp.token \notin DOMAIN sessions
    /\ DOMAIN sessions # {}

-----------------------------------------------------------------------------
(* C18 *)

TerminalFrames == {"complete", "error"}

\* C18 as stated: on a connection that is still open, every request the
\* relay has finished with (it is back at reading client frames, or has
\* gone on to a later request) got exactly one terminal frame, complete or
\* error, and that frame is the last frame of the request.
C18_ExactlyOneTerminalFrame ==
    (scenario = "tts_ws" /\ ttsClientOpen) =>
        \A r \in 1..ReqNo :
            (r < ReqNo \/ tts_pc = "recv") =>
                LET fr == FramesOf(r) IN
                /\ fr # <<>>
                /\ fr[Len(fr)].type \in TerminalFrames
                /\ \A i \in 1..(Len(fr) - 1) : fr[i].type \notin TerminalFrames

-----------------------------------------------------------------------------
(* C19 *)

\* C19 as stated: whenever the voice bridge is streaming (the flag is up
\* and the read loop is accepting client frames), the task that forwards
\* the queue to the upstream is still running.
C19_StreamingImpliesForwarding ==
    (scenario = "voice" /\ pc = "loop" /\ is_connected) => send_pc # "done"

-----------------------------------------------------------------------------
(* C20 *)

\* C20: the requests of one TTS connection are served one at a time: at
\* most one upstream session is open at any moment, it is open exactly
\* while the text is being submitted and the stream relayed, a client frame
\* is read only when no session is open, and the frames written to the
\* client are grouped by request, in the order of the requests.
C20_OneRequestAtATime ==
    [][ scenario = "tts_ws" =>
          /\ tts_open \in {0, 1} /\ tts_open' \in {0, 1}
          /\ (tts_open' = 1) <=> (tts_pc' \in {"sendtext", "stream"})
          /\ (ttsIn' # ttsIn) => (tts_open = 0 /\ tts_pc = "recv")
          /\ ttsSessions' <= Len(SelectSeq(ttsIn', LAMBDA f : f.kind = "tts"))
          /\ \A i, j \in 1..Len(ttsOut') :
                i < j => ttsOut'[i].req <= ttsOut'[j].req
      ]_vars

\* Two requests served on one connection, each with its own session, an
\* audio frame and its complete frame.
C20_Witness ==
    /\ scenario = "tts_ws"
    /\ ReqNo = 2
    /\ ttsSessions = 2
    /\ tts_open = 0
    /\ [i \in 1..Len(ttsOut) |-> ttsOut[i]]
          = << [req |-> 1, type |-> "audio"], [req |-> 1, type |-> "complete"],
               [req |-> 2, type |-> "audio"], [req |-> 2, type |-> "complete"] >>

=============================================================================
